---- MODULE Spec2Model ----
(***************************************************************************)
(* Model of add_newsarticle_to_project.py: a script that reads an Xcode    *)
(* project manifest (project.pbxproj), splices entries for two Swift files *)
(* into four places of the text and writes the text back.                  *)
(*                                                                         *)
(* The manifest text is modelled as a sequence of tokens.  A token is a    *)
(* tuple of strings whose first element is its kind.  The tokens are the   *)
(* units the script's searches work on: the literals it looks for, runs of *)
(* whitespace, commas, list entries, and the lines the script generates.   *)
(***************************************************************************)
EXTENDS Naturals, Sequences, FiniteSets

VARIABLES file, content, file_refs, build_files, pc, trace,
          received, original, snapshot, runs, extLog, lastWriter

vars == <<file, content, file_refs, build_files, pc, trace,
          received, original, snapshot, runs, extLog, lastWriter>>

----------------------------------------------------------------------------
(* Bounds of the model *)

MaxGroups == 2
MaxRuns == 2
MaxExtWrites == 1

----------------------------------------------------------------------------
(* Tokens *)

WS == <<"ws">>
Comma == <<"Comma">>
BeginBuildFile == <<"BeginBuildFile">>
EndBuildFile == <<"EndBuildFile">>
BeginFileRef == <<"BeginFileRef">>
EndFileRef == <<"EndFileRef">>
ChildrenOpen == <<"ChildrenOpen">>
FilesOpen == <<"FilesOpen">>
Close == <<"Close">>
SourcesLabel == <<"SourcesLabel">>
Foreign == <<"Foreign">>

Entry(name) == <<"Entry", name>>
EntryParen(name) == <<"EntryParen", name>>

IsWs(t) == t[1] = "ws"

\* the text of the token contains a ")" character
HasRParen(t) == t[1] \in {"Close", "EntryParen"}

----------------------------------------------------------------------------
(* The script's constants and generated lines *)

project_path == "iOS-Trading-App.xcodeproj/project.pbxproj"

files_to_add == <<"NewsArticle.swift", "NewsArticle+CoreDataProperties.swift">>

FileNames == {files_to_add[i] : i \in DOMAIN files_to_add}

\* the values generate_uuid can return, abstracted to a small set
IdSet == {"ID1", "ID2"}

NoIds == [f \in FileNames |-> "none"]

generate_uuid == IdSet

\* the fileRef of the line taken from the wrong table
build_file_entry_wrong_ref(refs, builds, f) == <<WS, <<"BuildFile", builds[f], f, builds[f]>>>>

build_file_entry(refs, builds, f) == <<WS, <<"BuildFile", builds[f], f, refs[f]>>>>

file_ref_entry(refs, f) == <<WS, <<"FileRef", refs[f], f>>>>

new_child(refs, f) == <<WS, <<"Child", refs[f], f>>, Comma>>

new_source(builds, f) == <<WS, <<"Source", builds[f], f>>, Comma>>

----------------------------------------------------------------------------
(* String helpers *)

RECURSIVE Join(_, _)
Join(parts, sep) ==
    IF Len(parts) = 0 THEN <<>>
    ELSE IF Len(parts) = 1 THEN parts[1]
    ELSE parts[1] \o sep \o Join(Tail(parts), sep)

\* strips the trailing commas along with the whitespace
RECURSIVE RStripCommas(_)
RStripCommas(s) ==
    IF Len(s) > 0 /\ (IsWs(s[Len(s)]) \/ s[Len(s)] = Comma)
    THEN RStripCommas(SubSeq(s, 1, Len(s) - 1)) ELSE s

RECURSIVE RStrip(_)
RStrip(s) ==
    IF Len(s) > 0 /\ IsWs(s[Len(s)]) THEN RStrip(SubSeq(s, 1, Len(s) - 1)) ELSE s

\* str.find: the first position of the token, 0 when there is none
Find(text, tok) ==
    IF \E i \in DOMAIN text : text[i] = tok
    THEN CHOOSE i \in DOMAIN text : text[i] = tok /\ \A j \in 1..(i - 1) : text[j] # tok
    ELSE 0

\* text[:pos] + ins + text[pos:], pos being the 1-based position of text[pos:]
Splice(text, pos, ins) ==
    SubSeq(text, 1, pos - 1) \o ins \o SubSeq(text, pos, Len(text))

\* text[:from] + new + text[to:], replacing positions from..to-1
Replace(text, from, to, new) ==
    SubSeq(text, 1, from - 1) \o new \o SubSeq(text, to, Len(text))

\* the position after the run of whitespace that starts at position p
RECURSIVE SkipWs(_, _)
SkipWs(text, p) ==
    IF p <= Len(text) /\ IsWs(text[p]) THEN SkipWs(text, p + 1) ELSE p

----------------------------------------------------------------------------
(* The four insertion passes, as functions of the buffer *)

build_file_entries(refs, builds) ==
    [i \in DOMAIN files_to_add |-> build_file_entry(refs, builds, files_to_add[i])]

\* lines 40-42
AddBuildFileEntries(text, refs, builds) ==
    LET build_file_end == Find(text, EndBuildFile)
    IN  IF build_file_end # 0
        THEN Splice(text, build_file_end,
                    Join(build_file_entries(refs, builds), <<WS>>) \o <<WS>>)
        ELSE text

file_ref_entries(refs) ==
    [i \in DOMAIN files_to_add |-> file_ref_entry(refs, files_to_add[i])]

\* lines 53-55
AddFileRefEntries(text, refs) ==
    LET file_ref_end == Find(text, EndFileRef)
    IN  IF file_ref_end # 0
        THEN Splice(text, file_ref_end, Join(file_ref_entries(refs), <<WS>>) \o <<WS>>)
        ELSE text

\* the first token after position i whose text contains ")", 0 when there is none
FirstRParen(text, i) ==
    IF \E j \in (i + 1)..Len(text) : HasRParen(text[j])
    THEN CHOOSE j \in (i + 1)..Len(text) :
            HasRParen(text[j]) /\ \A k \in (i + 1)..(j - 1) : ~HasRParen(text[k])
    ELSE 0

\* children = \(\s*([^)]*)\s*\);  matches at position i: [^)]* runs up to the
\* first ")" and the pattern then needs ");" right there
GroupMatchesAt(text, i) ==
    /\ text[i] = ChildrenOpen
    /\ FirstRParen(text, i) # 0
    /\ text[FirstRParen(text, i)] = Close

\* matches[0]: the leftmost match, 0 when the list of matches is empty
group_match(text) ==
    IF \E i \in DOMAIN text : GroupMatchesAt(text, i)
    THEN CHOOSE i \in DOMAIN text :
            GroupMatchesAt(text, i) /\ \A j \in 1..(i - 1) : ~GroupMatchesAt(text, j)
    ELSE 0

\* match.start(1): after the greedy leading \s*
GroupStart(text, i) == SkipWs(text, i + 1)

\* match.end(1): [^)]* is greedy and takes the trailing whitespace too
GroupEnd(text, i) == FirstRParen(text, i)

new_children(refs) == [i \in DOMAIN files_to_add |-> new_child(refs, files_to_add[i])]

\* line 73
updated_children(children_content, refs) ==
    RStrip(children_content) \o <<Comma, WS>> \o Join(new_children(refs), <<WS>>)

\* lines 59-75
AddGroupChildren(text, refs) ==
    LET m == group_match(text)
    IN  IF m # 0
        THEN LET s == GroupStart(text, m)
                 e == GroupEnd(text, m)
             IN  Replace(text, s, e, updated_children(SubSeq(text, s, e - 1), refs))
        ELSE text

\* \s*\);.*?/\* Sources \*/  matches at position e
SourcesTailAt(text, e) ==
    LET j == SkipWs(text, e)
    IN  /\ j <= Len(text)
        /\ text[j] = Close
        /\ \E k \in (j + 1)..Len(text) : text[k] = SourcesLabel

\* (files = \(\s*)(.*?)(\s*\);.*?/\* Sources \*/)  matches at position i
SourcesMatchesAt(text, i) ==
    /\ text[i] = FilesOpen
    /\ \E e \in SkipWs(text, i + 1)..Len(text) : SourcesTailAt(text, e)

\* re.search: the leftmost match, 0 when there is none
sources_match(text) ==
    IF \E i \in DOMAIN text : SourcesMatchesAt(text, i)
    THEN CHOOSE i \in DOMAIN text :
            SourcesMatchesAt(text, i) /\ \A j \in 1..(i - 1) : ~SourcesMatchesAt(text, j)
    ELSE 0

\* sources_match.start(2)
SourcesStart(text, i) == SkipWs(text, i + 1)

\* sources_match.end(2): .*? is lazy and stops at the first place the tail matches
SourcesEnd(text, i) ==
    CHOOSE e \in SourcesStart(text, i)..Len(text) :
        /\ SourcesTailAt(text, e)
        /\ \A d \in SourcesStart(text, i)..(e - 1) : ~SourcesTailAt(text, d)

new_sources(builds) == [i \in DOMAIN files_to_add |-> new_source(builds, files_to_add[i])]

\* line 90
updated_sources(files_content, builds) ==
    RStrip(files_content) \o <<Comma, WS>> \o Join(new_sources(builds), <<WS>>)

\* lines 78-92
AddSourcesFiles(text, builds) ==
    LET m == sources_match(text)
    IN  IF m # 0
        THEN LET s == SourcesStart(text, m)
                 e == SourcesEnd(text, m)
             IN  Replace(text, s, e, updated_sources(SubSeq(text, s, e - 1), builds))
        ELSE text

----------------------------------------------------------------------------
(* The manifests the script is run on.  A manifest follows the section     *)
(* order Xcode writes: the PBXBuildFile section, the PBXFileReference      *)
(* section, a build phase that precedes the groups (Frameworks), the       *)
(* groups, the Sources build phase, and what follows it.  Every part may   *)
(* be missing, and every list comes in several shapes.                     *)

EmptyList == <<WS>>
TwoWithCommas == <<WS, Entry("A1"), Comma, WS, Entry("A2"), Comma, WS>>
TwoNoLastComma == <<WS, Entry("A1"), Comma, WS, Entry("A2"), WS>>
ParenEntry == <<WS, EntryParen("A1"), Comma, WS>>

ChildrenShapes == {EmptyList, TwoWithCommas, TwoNoLastComma, ParenEntry}
FilesShapes == {EmptyList, TwoWithCommas, TwoNoLastComma}

ChildrenBlock(shape) == <<ChildrenOpen>> \o shape \o <<Close, WS>>
FilesBlock(shape) == <<FilesOpen>> \o shape \o <<Close, WS>>

RECURSIVE Flatten(_)
Flatten(parts) == IF Len(parts) = 0 THEN <<>> ELSE parts[1] \o Flatten(Tail(parts))

ShapeSeqs(max) == UNION {[1..n -> ChildrenShapes] : n \in 0..max}

GroupSections(max) ==
    {Flatten([i \in DOMAIN shapes |-> ChildrenBlock(shapes[i])]) : shapes \in ShapeSeqs(max)}

BuildFileSections == {<<>>, <<BeginBuildFile, WS, EndBuildFile, WS>>}
FileRefSections == {<<>>, <<BeginFileRef, WS, EndFileRef, WS>>}
EarlierPhases == {<<>>} \cup {FilesBlock(sh) : sh \in FilesShapes}
SourcesPhases == {<<>>} \cup {<<SourcesLabel, WS>> \o FilesBlock(sh) : sh \in FilesShapes}
Trailers == {<<>>, <<SourcesLabel, WS>>}

Manifests(max) ==
    {bf \o fr \o ph \o gr \o sp \o tr :
        bf \in BuildFileSections, fr \in FileRefSections, ph \in EarlierPhases,
        gr \in GroupSections(max), sp \in SourcesPhases, tr \in Trailers}

----------------------------------------------------------------------------
(* Landmarks of a text, stated on the text alone *)

HasBuildFileEnd(text) == \E i \in DOMAIN text : text[i] = EndBuildFile

HasFileRefEnd(text) == \E i \in DOMAIN text : text[i] = EndFileRef

\* a children = ( ... ); block: an opener and the ");" that closes its list
HasChildrenBlock(text) ==
    \E i \in DOMAIN text : text[i] = ChildrenOpen /\ \E j \in (i + 1)..Len(text) : text[j] = Close

\* a files = ( ... ); block followed later by /* Sources */
HasSourcesBlock(text) ==
    \E i \in DOMAIN text : /\ text[i] = FilesOpen
                           /\ \E j \in (i + 1)..Len(text) :
                                /\ text[j] = Close
                                /\ \E k \in (j + 1)..Len(text) : text[k] = SourcesLabel

AllFourLandmarks(text) ==
    HasBuildFileEnd(text) /\ HasFileRefEnd(text) /\ HasChildrenBlock(text) /\ HasSourcesBlock(text)

----------------------------------------------------------------------------
(* The run of the script.  pc names the last step that finished.           *)
(* trace lists the steps of the current run in the order they happened;    *)
(* received is the buffer the latest insertion pass was handed; snapshot   *)
(* is the text the current run read; original is the manifest before the   *)
(* first run; extLog lists, for each write by another process, the step   *)
(* the script had reached when it happened.                                *)

InitOn(manifests) ==
    /\ file \in manifests
    /\ original = file
    /\ content = <<>>
    /\ snapshot = <<>>
    /\ received = <<>>
    /\ file_refs = NoIds
    /\ build_files = NoIds
    /\ pc = "start"
    /\ trace = <<>>
    /\ runs = 1
    /\ extLog = <<>>
    /\ lastWriter = "none"

Init == InitOn(Manifests(MaxGroups))

\* lines 20-21
ReadFile ==
    /\ pc = "start"
    /\ content' = file
    /\ snapshot' = file
    /\ pc' = "read"
    /\ trace' = Append(trace, <<"read", project_path>>)
    /\ UNCHANGED <<file, file_refs, build_files, received, original, runs, extLog, lastWriter>>

\* lines 20-21, open() raising: the exception is not caught
ReadFails ==
    /\ pc = "start"
    /\ pc' = "crashed"
    /\ trace' = Append(trace, <<"read_failed", project_path>>)
    /\ UNCHANGED <<file, content, snapshot, file_refs, build_files, received, original,
                   runs, extLog, lastWriter>>

\* lines 24-29
GenerateIds ==
    /\ pc = "read"
    /\ \E refs \in [FileNames -> generate_uuid], builds \in [FileNames -> generate_uuid] :
          /\ file_refs' = refs
          /\ build_files' = builds
    /\ pc' = "ids"
    /\ trace' = Append(trace, <<"ids">>)
    /\ UNCHANGED <<file, content, snapshot, received, original, runs, extLog, lastWriter>>

\* lines 31-42
AddBuildFiles ==
    /\ pc = "ids"
    /\ received' = content
    /\ content' = AddBuildFileEntries(content, file_refs, build_files)
    /\ pc' = "buildfile"
    /\ trace' = Append(trace, <<"buildfile">>)
    /\ UNCHANGED <<file, snapshot, file_refs, build_files, original, runs, extLog, lastWriter>>

\* lines 44-55
AddFileRefs ==
    /\ pc = "buildfile"
    /\ received' = content
    /\ content' = AddFileRefEntries(content, file_refs)
    /\ pc' = "fileref"
    /\ trace' = Append(trace, <<"fileref">>)
    /\ UNCHANGED <<file, snapshot, file_refs, build_files, original, runs, extLog, lastWriter>>

\* lines 57-75
AddGroup ==
    /\ pc = "fileref"
    /\ received' = content
    /\ content' = AddGroupChildren(content, file_refs)
    /\ pc' = "group"
    /\ trace' = Append(trace, <<"group">>)
    /\ UNCHANGED <<file, snapshot, file_refs, build_files, original, runs, extLog, lastWriter>>

\* lines 77-92
AddSources ==
    /\ pc = "group"
    /\ received' = content
    /\ content' = AddSourcesFiles(content, build_files)
    /\ pc' = "sources"
    /\ trace' = Append(trace, <<"sources">>)
    /\ UNCHANGED <<file, snapshot, file_refs, build_files, original, runs, extLog, lastWriter>>

\* the file opened for appending
OverwriteAppends(old, new) == old \o new

\* open(project_path, 'w') replaces the file by what is written to it
Overwrite(old, new) == new

\* lines 95-96
WriteFile ==
    /\ pc = "sources"
    /\ file' = Overwrite(file, content)
    /\ lastWriter' = "script"
    /\ pc' = "written"
    /\ trace' = Append(trace, <<"write", project_path>>)
    /\ UNCHANGED <<content, snapshot, file_refs, build_files, received, original, runs, extLog>>

\* lines 95-96, open() raising: the exception is not caught, the file is as it was
WriteFails ==
    /\ pc = "sources"
    /\ pc' = "crashed"
    /\ trace' = Append(trace, <<"write_failed", project_path>>)
    /\ UNCHANGED <<file, content, snapshot, file_refs, build_files, received, original,
                   runs, extLog, lastWriter>>

\* the message printed only when the run changed the text
PrintSuccessIfChanged ==
    /\ pc = "written"
    /\ content # snapshot
    /\ pc' = "done"
    /\ trace' = Append(trace, <<"print">>)
    /\ UNCHANGED <<file, content, snapshot, file_refs, build_files, received, original,
                   runs, extLog, lastWriter>>

\* lines 98-100
PrintSuccess ==
    /\ pc = "written"
    /\ pc' = "done"
    /\ trace' = Append(trace, <<"print">>)
    /\ UNCHANGED <<file, content, snapshot, file_refs, build_files, received, original,
                   runs, extLog, lastWriter>>

\* lines 102-103: the script is started again on the file the earlier run left
RunAgain ==
    /\ pc = "done"
    /\ runs < MaxRuns
    /\ runs' = runs + 1
    /\ pc' = "start"
    /\ trace' = <<>>
    /\ content' = <<>>
    /\ snapshot' = <<>>
    /\ received' = <<>>
    /\ file_refs' = NoIds
    /\ build_files' = NoIds
    /\ UNCHANGED <<file, original, extLog, lastWriter>>

\* another process writes the manifest: nothing locks the file (lines 20, 95)
ExternalWrite ==
    /\ Len(extLog) < MaxExtWrites
    /\ extLog' = Append(extLog, pc)
    /\ file' = file \o <<Foreign, WS>>
    /\ lastWriter' = "other"
    /\ UNCHANGED <<content, snapshot, file_refs, build_files, pc, trace, received, original, runs>>

Run ==
    \/ ReadFile
    \/ ReadFails
    \/ GenerateIds
    \/ AddBuildFiles
    \/ AddFileRefs
    \/ AddGroup
    \/ AddSources
    \/ WriteFile
    \/ WriteFails
    \/ PrintSuccess

Next == Run

Spec == Init /\ [][Next]_vars

\* two runs in sequence, on the manifests with at most one group that hold all four
\* landmarks
InitTwice == InitOn({m \in Manifests(1) : AllFourLandmarks(m)})

NextTwice == Run \/ RunAgain

SpecTwice == InitTwice /\ [][NextTwice]_vars

\* one run with another process writing the file, on the manifests with at most one
\* group (the overwrite does not depend on what the passes inserted)
InitRace == InitOn(Manifests(1))

NextRace == Run \/ ExternalWrite

SpecRace == InitRace /\ [][NextRace]_vars

----------------------------------------------------------------------------
(* Measures of a text used by the properties *)

RECURSIVE Filter(_, _, _)
Filter(s, keep, i) ==
    IF i > Len(s) THEN <<>>
    ELSE (IF i \in keep THEN <<s[i]>> ELSE <<>>) \o Filter(s, keep, i + 1)

NonWs(s) == Filter(s, {i \in DOMAIN s : ~IsWs(s[i])}, 1)

GeneratedKinds == {"BuildFile", "FileRef", "Child", "Source"}

IsGenerated(t) == t[1] \in GeneratedKinds

\* the generated tokens of one kind for one file name
LinesOf(text, kind, f) == {i \in DOMAIN text : text[i][1] = kind /\ text[i][3] = f}

CountOf(text, kind, f) == Cardinality(LinesOf(text, kind, f))

CountKind(text, kind) == Cardinality({i \in DOMAIN text : text[i][1] = kind})

\* the position of the first marker after position i, 0 when there is none
NextOf(text, i, tok) ==
    IF \E j \in (i + 1)..Len(text) : text[j] = tok
    THEN CHOOSE j \in (i + 1)..Len(text) :
            text[j] = tok /\ \A k \in (i + 1)..(j - 1) : text[k] # tok
    ELSE 0

\* the positions of the openers of one kind, in document order
Openers(text, opener) == Filter([i \in DOMAIN text |-> i], {i \in DOMAIN text : text[i] = opener}, 1)

\* the list opened at position i: the tokens up to the ");" that closes it
ListAt(text, i) ==
    IF NextOf(text, i, Close) = 0 THEN SubSeq(text, i + 1, Len(text))
    ELSE SubSeq(text, i + 1, NextOf(text, i, Close) - 1)

\* the n-th list of one kind
NthList(text, opener, n) == ListAt(text, Openers(text, opener)[n])

NumLists(text, opener) == Len(Openers(text, opener))

\* a comma-terminated list: entry, comma, entry, comma, ...
WellFormedList(l) ==
    /\ Len(l) % 2 = 0
    /\ \A i \in DOMAIN l : (i % 2 = 0) <=> (l[i] = Comma)

\* between position i and the marker there is only whitespace and lines of the kind
RightBefore(text, i, kind, marker) ==
    /\ Find(text, marker) > i
    /\ \A k \in (i + 1)..(Find(text, marker) - 1) : IsWs(text[k]) \/ text[k][1] = kind

AfterPasses == pc \in {"sources", "written", "done"}

----------------------------------------------------------------------------
(* C1: on a manifest that holds all four landmarks, one run adds exactly   *)
(* one PBXBuildFile line and one PBXFileReference line per target file     *)
(* name, right before the respective End marker, and the fileRef id of a   *)
(* file's PBXBuildFile line is the id of its PBXFileReference line.        *)
C1_OneConsistentLinePerFile ==
    (AfterPasses /\ AllFourLandmarks(snapshot)) =>
        \A f \in FileNames :
            /\ CountOf(content, "BuildFile", f) = CountOf(snapshot, "BuildFile", f) + 1
            /\ CountOf(content, "FileRef", f) = CountOf(snapshot, "FileRef", f) + 1
            /\ \A i \in LinesOf(content, "BuildFile", f) :
                  /\ RightBefore(content, i, "BuildFile", EndBuildFile)
                  /\ \A j \in LinesOf(content, "FileRef", f) :
                        /\ RightBefore(content, j, "FileRef", EndFileRef)
                        /\ content[i][4] = content[j][2]

C1_Witness ==
    /\ pc = "done"
    /\ AllFourLandmarks(snapshot)
    /\ \A f \in FileNames : file_refs[f] # build_files[f]
    /\ \E f \in FileNames : CountOf(file, "BuildFile", f) = 1 /\ CountOf(file, "FileRef", f) = 1

----------------------------------------------------------------------------
(* C10: a run only inserts text.  The non-whitespace tokens of the input   *)
(* are all in the output, in their order, and what the output has beyond   *)
(* them is the generated lines and entries (two of a kind at most), the    *)
(* comma that ends each generated list entry and the separator comma put   *)
(* before the new entries of a list.                                       *)

IsListEntry(t) == t[1] \in {"Child", "Source"}

\* the positions of p that are neither generated nor a comma next to a generated entry
InputPositions(p) ==
    {i \in DOMAIN p :
        /\ ~IsGenerated(p[i])
        /\ ~(/\ p[i] = Comma
             /\ \/ (i > 1 /\ IsListEntry(p[i - 1]))
                \/ (i < Len(p) /\ IsListEntry(p[i + 1])))}

WithoutInsertions(p) == Filter(p, InputPositions(p), 1)

\* the separator commas: one before the first new entry of each list that got entries
SeparatorCommas(p) ==
    {i \in DOMAIN p : p[i] = Comma /\ i < Len(p) /\ IsListEntry(p[i + 1])
                      /\ ~(i > 1 /\ IsListEntry(p[i - 1]))}

C10_OnlyInserts ==
    AfterPasses =>
        LET out == NonWs(content)
            seps == Cardinality(SeparatorCommas(out))
        IN  /\ WithoutInsertions(out) = NonWs(snapshot)
            /\ \A k \in GeneratedKinds : CountKind(out, k) \in {0, 2}
            /\ Len(out) = Len(NonWs(snapshot)) + CountKind(out, "BuildFile")
                          + CountKind(out, "FileRef") + 2 * CountKind(out, "Child")
                          + 2 * CountKind(out, "Source") + seps
            /\ seps = (IF CountKind(out, "Child") > 0 THEN 1 ELSE 0)
                      + (IF CountKind(out, "Source") > 0 THEN 1 ELSE 0)

C10_Witness ==
    /\ pc = "done"
    /\ \A k \in GeneratedKinds : CountKind(file, k) = 2
    /\ CountKind(snapshot, "Comma") > 0

----------------------------------------------------------------------------
(* C7: a run reads the manifest once and writes it at most once, to the    *)
(* path it read; the write comes after the four passes, each of which      *)
(* works on the buffer the pass before it left, and the success message    *)
(* comes after the write; a failed read ends the run with the file         *)
(* untouched and nothing printed; after a successful write the message is  *)
(* printed whether or not anything was inserted.                           *)

Kinds(t) == [i \in DOMAIN t |-> t[i][1]]

Events(kind) == {i \in DOMAIN trace : trace[i][1] = kind}

StepsBeforeWrite == <<"read", "ids", "buildfile", "fileref", "group", "sources">>

C7_ReadPassesWritePrint ==
    /\ Cardinality(Events("read")) + Cardinality(Events("read_failed")) <= 1
    /\ Cardinality(Events("write")) + Cardinality(Events("write_failed")) <= 1
    /\ pc \notin {"start"} => trace[1][1] \in {"read", "read_failed"}
    /\ \A i \in Events("write") :
          /\ Kinds(SubSeq(trace, 1, i - 1)) = StepsBeforeWrite
          /\ trace[i][2] = trace[1][2]
    /\ \A i \in Events("print") : i > 1 /\ trace[i - 1][1] = "write"
    /\ Events("read_failed") # {} =>
          /\ pc = "crashed"
          /\ Len(trace) = 1
          /\ file = original
          /\ lastWriter = "none"
    /\ Events("write") = {} => file = original /\ lastWriter = "none"
    /\ pc = "buildfile" => received = snapshot
    /\ pc = "fileref" => received = AddBuildFileEntries(snapshot, file_refs, build_files)
    /\ pc = "group" =>
          received = AddFileRefEntries(
                        AddBuildFileEntries(snapshot, file_refs, build_files), file_refs)
    /\ pc = "sources" =>
          /\ received = AddGroupChildren(
                           AddFileRefEntries(
                              AddBuildFileEntries(snapshot, file_refs, build_files), file_refs),
                           file_refs)
          /\ content = AddSourcesFiles(received, build_files)
    /\ pc \in {"written", "done"} => file = content
    /\ pc = "written" => ENABLED PrintSuccess
    /\ pc = "done" =>
          Kinds(trace) = StepsBeforeWrite \o <<"write", "print">>

C7_Witness ==
    /\ pc = "done"
    /\ trace[Len(trace)] = <<"print">>
    /\ file = original
    /\ Len(original) > 0

\* the file the script wrote is the four passes applied to the text it read
Pipeline(text, refs, builds) ==
    AddSourcesFiles(
        AddGroupChildren(
            AddFileRefEntries(AddBuildFileEntries(text, refs, builds), refs), refs),
        builds)

----------------------------------------------------------------------------
(* C8: the read and the overwrite are separate, unlocked steps.  When      *)
(* another process writes the manifest between them, the script's write    *)
(* replaces the file by the buffer it derived from the text it read: the   *)
(* other write is lost, and the run goes on to print the success message.  *)

DuringRun == {"read", "ids", "buildfile", "fileref", "group", "sources"}

WrittenBetween == \E k \in DOMAIN extLog : extLog[k] \in DuringRun

C8_LostUpdate ==
    /\ lastWriter = "script" =>
          /\ file = Pipeline(snapshot, file_refs, build_files)
          /\ CountKind(file, "Foreign") = CountKind(snapshot, "Foreign")
    /\ (WrittenBetween /\ pc = "sources") => ENABLED WriteFile
    /\ (WrittenBetween /\ pc = "written") => ENABLED PrintSuccess
    /\ (WrittenBetween /\ pc = "crashed") =>
          trace[Len(trace)][1] \in {"read_failed", "write_failed"}

C8_Witness ==
    /\ pc = "done"
    /\ WrittenBetween
    /\ lastWriter = "script"
    /\ trace[Len(trace)] = <<"print">>
    /\ CountKind(file, "Foreign") = 0

----------------------------------------------------------------------------
(* C2: on a manifest with all four landmarks whose first children list     *)
(* holds two entries, each with its comma, the list holds four entries     *)
(* after the run: the two it had, then NewsArticle.swift, then             *)
(* NewsArticle+CoreDataProperties.swift, each followed by one comma and    *)
(* no empty element between them.                                          *)
C2_TwoEntriesBecomeFour ==
    (/\ AfterPasses
     /\ AllFourLandmarks(snapshot)
     /\ NthList(snapshot, ChildrenOpen, 1) = TwoWithCommas) =>
        NonWs(NthList(content, ChildrenOpen, 1)) =
            <<Entry("A1"), Comma, Entry("A2"), Comma,
              <<"Child", file_refs[files_to_add[1]], files_to_add[1]>>, Comma,
              <<"Child", file_refs[files_to_add[2]], files_to_add[2]>>, Comma>>

----------------------------------------------------------------------------
(* C3: the script is not idempotent.  On a manifest with all four          *)
(* landmarks, after two runs each of the four regions holds two entries    *)
(* per target file name, the second run's in the regions of the first.     *)
C3_SecondRunDuplicates ==
    (runs = 2 /\ pc = "done" /\ AllFourLandmarks(original)) =>
        /\ \A f \in FileNames :
              /\ CountOf(file, "BuildFile", f) = 2
              /\ CountOf(file, "FileRef", f) = 2
              /\ CountOf(file, "Child", f) = 2
              /\ CountOf(file, "Source", f) = 2
              /\ \A i \in LinesOf(file, "BuildFile", f) :
                    RightBefore(file, i, "BuildFile", EndBuildFile)
              /\ \A i \in LinesOf(file, "FileRef", f) :
                    RightBefore(file, i, "FileRef", EndFileRef)
        /\ \E n \in 1..NumLists(file, ChildrenOpen) :
              CountKind(NthList(file, ChildrenOpen, n), "Child") = 4
        /\ \E n \in 1..NumLists(file, FilesOpen) :
              CountKind(NthList(file, FilesOpen, n), "Source") = 4

----------------------------------------------------------------------------
(* C4: whatever landmarks the input holds, no pass raises an error; a pass *)
(* whose landmark is absent hands on the buffer it received, a pass whose  *)
(* landmark is present makes its insertion, and the file is written.       *)
C4_AbsentSkippedPresentInserted ==
    /\ pc = "buildfile" =>
          IF HasBuildFileEnd(received)
          THEN CountKind(content, "BuildFile") = CountKind(received, "BuildFile") + 2
          ELSE content = received
    /\ pc = "fileref" =>
          IF HasFileRefEnd(received)
          THEN CountKind(content, "FileRef") = CountKind(received, "FileRef") + 2
          ELSE content = received
    /\ pc = "group" =>
          IF HasChildrenBlock(received)
          THEN CountKind(content, "Child") = CountKind(received, "Child") + 2
          ELSE content = received
    /\ pc = "sources" =>
          /\ IF HasSourcesBlock(received)
             THEN CountKind(content, "Source") = CountKind(received, "Source") + 2
             ELSE content = received
          /\ ENABLED WriteFile
    /\ pc = "crashed" => trace[Len(trace)][1] \in {"read_failed", "write_failed"}

----------------------------------------------------------------------------
(* C5: the sources step appends its two entries to the files list of the   *)
(* Sources build phase, the list opened after the Sources label, and       *)
(* changes no other files list.                                            *)

\* the number, among the files lists, of the list of the Sources build phase: the
\* first list opened after the label; 0 when there is none
SourcesPhaseList(text) ==
    IF Find(text, SourcesLabel) = 0 \/ NextOf(text, Find(text, SourcesLabel), FilesOpen) = 0
    THEN 0
    ELSE Cardinality({i \in 1..NextOf(text, Find(text, SourcesLabel), FilesOpen) :
                        text[i] = FilesOpen})

C5_EntriesInSourcesPhaseList ==
    (/\ pc = "sources"
     /\ HasSourcesBlock(received)
     /\ SourcesPhaseList(received) # 0) =>
        \A n \in 1..NumLists(content, FilesOpen) :
            IF n = SourcesPhaseList(received)
            THEN /\ CountKind(NthList(content, FilesOpen, n), "Source") = 2
                 /\ WithoutInsertions(NonWs(NthList(content, FilesOpen, n)))
                       = NonWs(NthList(received, FilesOpen, n))
            ELSE NthList(content, FilesOpen, n) = NthList(received, FilesOpen, n)

----------------------------------------------------------------------------
(* C6: when the manifest holds a children block, the group step puts the   *)
(* two entries into the first one in document order and into no other,     *)
(* whatever that block holds: no entry, or an entry whose comment has a    *)
(* ")".                                                                    *)
C6_FirstChildrenBlockGetsEntries ==
    (pc = "group" /\ HasChildrenBlock(received)) =>
        \A n \in 1..NumLists(content, ChildrenOpen) :
            CountKind(NthList(content, ChildrenOpen, n), "Child") = (IF n = 1 THEN 2 ELSE 0)

----------------------------------------------------------------------------
(* C9: the list a step has added entries to is a well-formed               *)
(* comma-terminated list, whatever its shape was: no empty element, and    *)
(* one comma after each entry.                                             *)
C9_ModifiedListsWellFormed ==
    /\ pc = "group" =>
          \A n \in 1..NumLists(content, ChildrenOpen) :
              CountKind(NthList(content, ChildrenOpen, n), "Child") > 0 =>
                  WellFormedList(NonWs(NthList(content, ChildrenOpen, n)))
    /\ pc = "sources" =>
          \A n \in 1..NumLists(content, FilesOpen) :
              CountKind(NthList(content, FilesOpen, n), "Source") > 0 =>
                  WellFormedList(NonWs(NthList(content, FilesOpen, n)))

====
